---- MODULE Spec2Model ----
(***************************************************************************)
(* Model of src/app.py: the Flask backend that authenticates dashboard     *)
(* users through Discord OAuth (/callback), checks them against            *)
(* allowed_users.json, and aggregates Roblox profile data                  *)
(* (get_roblox_user_data behind /api/player and /details, and the         *)
(* /roblox form handler roblox_lookup).                                    *)
(*                                                                         *)
(* One request of one client is in progress at a time.  Every              *)
(* requests.get / requests.post of a handler is one step whose upstream    *)
(* outcome is chosen by the environment; allowed_users.json may be edited  *)
(* between any two steps.  The chat-log routes (/api/chatlogs) run on the   *)
(* threaded server: several add_chatlog requests interleave at their       *)
(* reads and writes of chatlogs.json.  parse_roblox_date is also checked   *)
(* on its own, over timestamps written in each encoding it accepts.        *)
(***************************************************************************)
EXTENDS Integers, Sequences, FiniteSets, TLC

VARIABLES
    allowed_users_file,  \* contents of allowed_users.json on disk
    session,             \* the client's Flask session (a dict)
    handler,             \* the view function serving the current request
    pc,                  \* position inside that view function
    req,                 \* inputs of the current request
    loc,                 \* local variables of the view function
    calls,               \* upstream calls issued by the current request
    resp,                \* response of the current request once it returned
    chatlog_file,        \* contents of chatlogs.json on disk
    writers,             \* the /api/chatlogs POST requests being served, per client
    chatlogs_resp        \* the last answer of GET /api/chatlogs

chatvars == <<chatlog_file, writers, chatlogs_resp>>

vars == <<allowed_users_file, session, handler, pc, req, loc, calls, resp, chatvars>>

(***************************************************************************)
(* Bounds                                                                  *)
(***************************************************************************)
MaxUserId == 2
MaxDay == 2
MaxWriters == 2
MaxPosts == 2

(***************************************************************************)
(* Python values                                                           *)
(***************************************************************************)
None == [t |-> "None"]
PyInt(n) == [t |-> "int", v |-> n]
PyStr(s) == [t |-> "str", v |-> s]
Raised == [t |-> "raise"]

\* bool(x) for the values that occur
Truthy(x) ==
    CASE x.t = "None" -> FALSE
      [] x.t = "int" -> x.v # 0
      [] x.t = "str" -> x.v # ""
      [] OTHER -> TRUE

(***************************************************************************)
(* Time.  Instants are whole seconds since an epoch; a timestamp string    *)
(* is described by what it spells: the wall-clock reading, the number of   *)
(* fractional digits (0: no fractional part) and the zone designator       *)
(* ("Z", "+01:00", or "" when the string has none).                        *)
(***************************************************************************)
SecondsPerDay == 24 * 60 * 60
HourSeconds == 60 * 60

Instants ==
    {d * SecondsPerDay : d \in 0..MaxDay} \cup
    {d * SecondsPerDay - 1 : d \in 1..MaxDay}

Zones == {"Z", "", "+01:00"}
FracDigits == {0, 3}

Ts(wall, frac, zone) == [t |-> "ts", wall |-> wall, frac |-> frac, zone |-> zone]

TimestampStrings == {Ts(w, f, z) : w \in Instants, f \in FracDigits, z \in Zones}

\* values the "created" key of a profile body can carry
CreatedValues ==
    {None, PyStr(""), PyStr("not a date"), PyInt(1)} \cup TimestampStrings

\* a datetime object: naive when tz is None, aware otherwise
Datetime(wall, tz) == [t |-> "datetime", wall |-> wall, tz |-> tz]

ZoneOffset(zone) == IF zone = "+01:00" THEN HourSeconds ELSE 0

\* datetime.strptime(date_str, "%Y-%m-%dT%H:%M:%S.%fZ")
strptime(date_str) ==
    IF date_str.t = "ts" /\ date_str.zone = "Z" /\ date_str.frac \in 1..6
    THEN Datetime(date_str.wall, None)
    ELSE Raised

\* fromisoformat with the zone offset read as UTC
fromisoformat_drops_offset(date_str) ==
    CASE date_str.t = "ts" /\ date_str.zone = "" ->
            Datetime(date_str.wall, None)
      [] date_str.t = "ts" /\ date_str.zone # "" ->
            Datetime(date_str.wall, PyInt(0))
      [] OTHER -> Raised

\* datetime.fromisoformat(date_str.replace("Z", "+00:00"))
fromisoformat(date_str) ==
    CASE date_str.t = "ts" /\ date_str.zone = "" ->
            Datetime(date_str.wall, None)
      [] date_str.t = "ts" /\ date_str.zone # "" ->
            Datetime(date_str.wall, PyInt(ZoneOffset(date_str.zone)))
      [] OTHER -> Raised

parse_roblox_date(date_str) ==
    IF ~Truthy(date_str) THEN None
    ELSE IF strptime(date_str) # Raised
         THEN Datetime(strptime(date_str).wall, PyInt(0))
         ELSE IF fromisoformat(date_str) # Raised
              THEN fromisoformat(date_str)
              ELSE None

\* (now - created_date).days, now being datetime.now(timezone.utc)
AgeDays(now, created_date) ==
    IF created_date.tz = None
    THEN Raised
    ELSE PyInt((now - (created_date.wall - created_date.tz.v)) \div SecondsPerDay)

(***************************************************************************)
(* Upstream calls.  The outcome of one requests.get / requests.post:       *)
(*   ok          status 200, JSON body with the data asked for             *)
(*   empty       status 200, JSON body without it                          *)
(*   badjson     status 200, body that is not JSON                         *)
(*   status_json non-200 status, JSON error body                           *)
(*   status_text non-200 status, body that is not JSON                     *)
(*   raise       the transport raised (connection error)                   *)
(*   hang        the upstream never answers (no timeout is passed)         *)
(***************************************************************************)
Outcomes == {"ok", "empty", "badjson", "status_json", "status_text", "raise", "hang"}

Status200(o) == o \in {"ok", "empty", "badjson"}
JsonRaises(o) == o \in {"badjson", "status_text"}

Call(name, o) == [call |-> name, outcome |-> o]

(***************************************************************************)
(* State                                                                   *)
(***************************************************************************)
UserIds == 1..MaxUserId
NoId == 0

\* the JSON object of GET /users/@me; id = NoId when the object has no "id"
User(id) == [t |-> "dict", id |-> id]
Users == {User(i) : i \in UserIds \cup {NoId}}

EmptySession == [user |-> None]

AllowFile(readable, ids) == [readable |-> readable, allowedUsers |-> ids]
AllowFiles == {AllowFile(FALSE, {})} \cup {AllowFile(TRUE, s) : s \in SUBSET UserIds}

\* allowed_users.json as deployed with the program
DeployedAllowFile == AllowFile(TRUE, {1})

NoRequest == [route |-> "none"]
NoLocals == [f |-> "none"]
NoResponse == [kind |-> "none"]

(***************************************************************************)
(* chatlogs.json.  The file is missing, holds a complete JSON list, has    *)
(* just been truncated by open(CHATLOG_FILE, "w"), or holds the text of    *)
(* one dump followed by the tail of a longer one (two writers had it open  *)
(* at once; records are taken to be of one size).                          *)
(***************************************************************************)
Writers == 1..MaxWriters

FileMissing == [state |-> "missing", logs |-> <<>>]
FileTruncated == [state |-> "truncated", logs |-> <<>>]
FileCorrupt == [state |-> "corrupt", logs |-> <<>>]
FileComplete(logs) == [state |-> "complete", logs |-> logs]

PyList(items) == [t |-> "list", v |-> items]

\* lines 47-51
load_chatlogs ==
    CASE chatlog_file.state = "missing" -> PyList(<<>>)
      [] chatlog_file.state = "complete" -> PyList(chatlog_file.logs)
      [] OTHER -> Raised

WriterIdle == [pc |-> "idle", logs |-> <<>>, posts |-> 0, status |-> 0, acked |-> {}]

ChatInit ==
    /\ chatlog_file = FileMissing
    /\ writers = [w \in Writers |-> WriterIdle]
    /\ chatlogs_resp = NoResponse

Init ==
    /\ allowed_users_file = DeployedAllowFile
    /\ session = EmptySession
    /\ handler = "idle"
    /\ pc = "idle"
    /\ req = NoRequest
    /\ loc = NoLocals
    /\ calls = <<>>
    /\ resp = NoResponse
    /\ ChatInit

\* a new request is served once the previous one returned, or was abandoned
\* by the client while the handler waits on an upstream that never answers
CanStart == pc \in {"idle", "done", "hung"}

Return(r) ==
    /\ pc' = "done"
    /\ resp' = r

Hang ==
    /\ pc' = "hung"
    /\ UNCHANGED resp

\* allowed_users.json is maintained outside the program
EditAllowList ==
    /\ \E f \in AllowFiles : f # allowed_users_file /\ allowed_users_file' = f
    /\ UNCHANGED <<session, handler, pc, req, loc, calls, resp>>
    /\ UNCHANGED chatvars

(***************************************************************************)
(* /callback                                                               *)
(***************************************************************************)
AccessTokens == {"at1"}
Codes == {None, PyStr("code")}

Text(status, body) == [kind |-> "text", status |-> status, body |-> body]
Json(status, body) == [kind |-> "json", status |-> status, body |-> body]
Page(status, template, context) ==
    [kind |-> "page", status |-> status, template |-> template, context |-> context]
Redirect(to, token) == [kind |-> "redirect", status |-> 302, to |-> to, token |-> token]

FrontendUrl == "https://bloxpanel-dev.netlify.app/?token="
AccessDeniedUrl == "/callback/access-denied"

CallbackLocals ==
    [access_token |-> None, user |-> None, user_id |-> NoId, allowed_users |-> {}]

\* lines 96-103: the code query parameter
callback_begin ==
    /\ CanStart
    /\ \E code \in Codes :
        /\ handler' = "callback"
        /\ req' = [route |-> "/callback", code |-> code]
        /\ loc' = CallbackLocals
        /\ calls' = <<>>
        /\ IF ~Truthy(code)
           THEN Return(Text(400, "Missing code"))
           ELSE pc' = "cb_exchange" /\ resp' = NoResponse
    /\ UNCHANGED <<allowed_users_file, session>>
    /\ UNCHANGED chatvars

\* the exchange with its failures sent to the denial page
callback_exchange_denies ==
    /\ handler = "callback" /\ pc = "cb_exchange"
    /\ \E o \in Outcomes, tok \in AccessTokens :
        /\ calls' = Append(calls, Call("token", o))
        /\ CASE o = "hang" ->
                  Hang /\ UNCHANGED loc
             [] o # "hang" /\ o # "ok" ->
                  Return(Redirect(AccessDeniedUrl, None)) /\ UNCHANGED loc
             [] o = "ok" ->
                  /\ loc' = [loc EXCEPT !.access_token = PyStr(tok)]
                  /\ pc' = "cb_identity"
                  /\ UNCHANGED resp
    /\ UNCHANGED <<allowed_users_file, session, handler, req>>
    /\ UNCHANGED chatvars

\* lines 116-128: POST /oauth2/token, raise_for_status, json, access_token
callback_exchange ==
    /\ handler = "callback" /\ pc = "cb_exchange"
    /\ \E o \in Outcomes, tok \in AccessTokens :
        /\ calls' = Append(calls, Call("token", o))
        /\ CASE o = "hang" ->
                  Hang /\ UNCHANGED loc
             [] o = "raise" \/ ~Status200(o) \/ JsonRaises(o) ->
                  Return(Text(400, "Token exchange failed")) /\ UNCHANGED loc
             [] o = "empty" ->
                  Return(Text(400, "Failed to get access token")) /\ UNCHANGED loc
             [] o = "ok" ->
                  /\ loc' = [loc EXCEPT !.access_token = PyStr(tok)]
                  /\ pc' = "cb_identity"
                  /\ UNCHANGED resp
    /\ UNCHANGED <<allowed_users_file, session, handler, req>>
    /\ UNCHANGED chatvars

\* the identity fetch with the session written before raise_for_status
callback_identity_stores_first ==
    /\ handler = "callback" /\ pc = "cb_identity"
    /\ \E o \in Outcomes, u \in Users :
        /\ calls' = Append(calls, Call("identity", o))
        /\ CASE o = "hang" ->
                  Hang /\ UNCHANGED <<loc, session>>
             [] o = "raise" \/ JsonRaises(o) ->
                  Return(Text(400, "Failed to fetch user info")) /\ UNCHANGED <<loc, session>>
             [] o = "status_json" ->
                  /\ session' = [session EXCEPT !.user = User(NoId)]
                  /\ Return(Text(400, "Failed to fetch user info"))
                  /\ UNCHANGED loc
             [] o \in {"ok", "empty"} ->
                  LET user == IF o = "ok" THEN u ELSE User(NoId) IN
                  /\ session' = [session EXCEPT !.user = user]
                  /\ loc' = [loc EXCEPT !.user = user, !.user_id = user.id]
                  /\ pc' = "cb_authorize"
                  /\ UNCHANGED resp
    /\ UNCHANGED <<allowed_users_file, handler, req>>
    /\ UNCHANGED chatvars

\* lines 131-144: GET /users/@me, raise_for_status, json, session["user"] = user
callback_identity ==
    /\ handler = "callback" /\ pc = "cb_identity"
    /\ \E o \in Outcomes, u \in Users :
        /\ calls' = Append(calls, Call("identity", o))
        /\ CASE o = "hang" ->
                  Hang /\ UNCHANGED <<loc, session>>
             [] o = "raise" \/ ~Status200(o) \/ JsonRaises(o) ->
                  Return(Text(400, "Failed to fetch user info")) /\ UNCHANGED <<loc, session>>
             [] o \in {"ok", "empty"} ->
                  LET user == IF o = "ok" THEN u ELSE User(NoId) IN
                  /\ session' = [session EXCEPT !.user = user]
                  /\ loc' = [loc EXCEPT !.user = user, !.user_id = user.id]
                  /\ pc' = "cb_authorize"
                  /\ UNCHANGED resp
    /\ UNCHANGED <<allowed_users_file, handler, req>>
    /\ UNCHANGED chatvars

\* the allow-list read once, when the program was deployed
load_allowed_users_cached == DeployedAllowFile

\* lines 148-149: open("allowed_users.json") and json.load(f).get("allowedUsers", [])
load_allowed_users == allowed_users_file

\* the allow-list check without the return on denial
callback_authorize_falls_through ==
    /\ handler = "callback" /\ pc = "cb_authorize"
    /\ LET f == load_allowed_users IN
       IF ~f.readable
       THEN Return(Text(500, "Server error")) /\ UNCHANGED loc
       ELSE /\ loc' = [loc EXCEPT !.allowed_users = f.allowedUsers]
            /\ pc' = "cb_notify" /\ UNCHANGED resp
    /\ UNCHANGED <<allowed_users_file, session, handler, req, calls>>
    /\ UNCHANGED chatvars

\* lines 147-157: the allow-list check
callback_authorize ==
    /\ handler = "callback" /\ pc = "cb_authorize"
    /\ LET f == load_allowed_users IN
       IF ~f.readable
       THEN Return(Text(500, "Server error")) /\ UNCHANGED loc
       ELSE /\ loc' = [loc EXCEPT !.allowed_users = f.allowedUsers]
            /\ IF loc.user_id \notin f.allowedUsers
               THEN Return(Redirect(AccessDeniedUrl, None))
               ELSE pc' = "cb_notify" /\ UNCHANGED resp
    /\ UNCHANGED <<allowed_users_file, session, handler, req, calls>>
    /\ UNCHANGED chatvars

\* lines 174-198: the webhook POST returns None whatever the delivery does,
\* every exception being caught and printed; it does not return while the
\* webhook never answers
send_login_log(o) == IF o = "hang" THEN "blocked" ELSE "returned"

\* lines 160-168: send_login_log(user), then the redirect carrying the token
callback_notify ==
    /\ handler = "callback" /\ pc = "cb_notify"
    /\ \E o \in Outcomes :
        /\ calls' = Append(calls, Call("webhook", o))
        /\ IF send_login_log(o) = "returned"
           THEN Return(Redirect(FrontendUrl, loc.access_token))
           ELSE Hang
    /\ UNCHANGED <<allowed_users_file, session, handler, req, loc>>
    /\ UNCHANGED chatvars

\* lines 170-172
access_denied ==
    /\ CanStart
    /\ handler' = "access_denied"
    /\ req' = [route |-> AccessDeniedUrl]
    /\ loc' = NoLocals
    /\ calls' = <<>>
    /\ Return(Page(403, "unauthorized.html", None))
    /\ UNCHANGED <<allowed_users_file, session>>
    /\ UNCHANGED chatvars

(***************************************************************************)
(* /api/user and /logout                                                   *)
(***************************************************************************)
\* lines 62-67
get_user ==
    /\ CanStart
    /\ handler' = "get_user"
    /\ req' = [route |-> "/api/user"]
    /\ loc' = NoLocals
    /\ calls' = <<>>
    /\ Return(Json(200, [t |-> "dict", logged_in |-> Truthy(session.user)]))
    /\ UNCHANGED <<allowed_users_file, session>>
    /\ UNCHANGED chatvars

\* logout that leaves the session's user entry in place
logout_keeps_user ==
    /\ CanStart
    /\ handler' = "logout"
    /\ req' = [route |-> "/logout"]
    /\ loc' = NoLocals
    /\ calls' = <<>>
    /\ Return(Redirect("/", None))
    /\ UNCHANGED <<allowed_users_file, session>>
    /\ UNCHANGED chatvars

\* lines 202-205
logout ==
    /\ CanStart
    /\ handler' = "logout"
    /\ req' = [route |-> "/logout"]
    /\ loc' = NoLocals
    /\ calls' = <<>>
    /\ session' = EmptySession
    /\ Return(Redirect("/", None))
    /\ UNCHANGED allowed_users_file
    /\ UNCHANGED chatvars

(***************************************************************************)
(* get_roblox_user_data, behind /api/player and /details                   *)
(***************************************************************************)
Usernames == {None, PyStr("ExistingUser")}
\* the token a caller may present (the one /callback put in the frontend URL)
BearerTokens == {None} \cup {PyStr(tok) : tok \in AccessTokens}
Nows == {SecondsPerDay, MaxDay * SecondsPerDay - 1}

ErrorBody(msg) == [t |-> "dict", error |-> msg]

\* the JSON object of GET /v1/users/{id}; absent keys read None through .get
Profile(o, created) ==
    IF o = "ok"
    THEN [name |-> PyStr("ExistingUser"), displayName |-> PyStr("Existing User"),
          description |-> PyStr("about me"), created |-> created]
    ELSE [name |-> None, displayName |-> None, description |-> None, created |-> None]

LookupLocals ==
    [user_id |-> None, profile |-> None, avatar_url |-> None,
     created_date |-> None, now |-> None, account_age |-> None]

\* lines 328-342: the record get_roblox_user_data returns
UserData(l) ==
    [t |-> "dict",
     username |-> l.profile.name,
     display_name |-> l.profile.displayName,
     id |-> l.user_id,
     created |-> l.profile.created,
     accountAge |-> l.account_age,
     description |-> l.profile.description,
     avatarBustUrl |-> l.avatar_url,
     friends |-> PyStr("No active Logic"),
     followers |-> PyStr("No active Logic"),
     following |-> PyStr("No active Logic"),
     voiceChat |-> PyStr("No active Logic"),
     safeChat |-> PyStr("No active Logic"),
     language |-> PyStr("No active Logic")]

\* lines 78-82 (api_player) and 355-360 (details): what the route answers
\* with the value get_roblox_user_data returned
RouteAnswer(route, user_data) ==
    IF route = "/api/player"
    THEN IF ~Truthy(user_data)
         THEN Json(404, ErrorBody("User not found or failed to fetch data"))
         ELSE Json(200, user_data)
    ELSE IF ~Truthy(user_data)
         THEN Page(200, "details.html", ErrorBody("Failed to load user data"))
         ELSE Page(200, "details.html", user_data)

\* lines 72-76 (api_player) and 350-353 (details): the username parameter
lookup_begin ==
    /\ CanStart
    /\ \E route \in {"/api/player", "/details"}, username \in Usernames,
          token \in BearerTokens :
        /\ handler' = "get_roblox_user_data"
        /\ req' = [route |-> route, username |-> username, token |-> token]
        /\ loc' = LookupLocals
        /\ calls' = <<>>
        /\ IF Truthy(username)
           THEN pc' = "grud_resolve" /\ resp' = NoResponse
           ELSE IF route = "/api/player"
                THEN Return(Json(400, ErrorBody("No username provided")))
                ELSE Return(Page(200, "details.html", ErrorBody("No username provided")))
    /\ UNCHANGED <<allowed_users_file, session>>
    /\ UNCHANGED chatvars

\* lines 288-304: POST /v1/usernames/users
grud_resolve ==
    /\ handler = "get_roblox_user_data" /\ pc = "grud_resolve"
    /\ \E o \in Outcomes :
        /\ calls' = Append(calls, Call("resolve", o))
        /\ CASE o = "hang" ->
                  Hang /\ UNCHANGED loc
             [] o = "raise" \/ ~Status200(o) \/ JsonRaises(o) \/ o = "empty" ->
                  Return(RouteAnswer(req.route, None)) /\ UNCHANGED loc
             [] o = "ok" ->
                  /\ loc' = [loc EXCEPT !.user_id = PyInt(1)]
                  /\ pc' = "grud_profile"
                  /\ UNCHANGED resp
    /\ UNCHANGED <<allowed_users_file, session, handler, req>>
    /\ UNCHANGED chatvars

\* lines 306-311: GET /v1/users/{user_id}
grud_profile ==
    /\ handler = "get_roblox_user_data" /\ pc = "grud_profile"
    /\ \E o \in Outcomes, created \in CreatedValues :
        /\ calls' = Append(calls, Call("profile", o))
        /\ CASE o = "hang" ->
                  Hang /\ UNCHANGED loc
             [] o = "raise" \/ ~Status200(o) \/ JsonRaises(o) ->
                  Return(RouteAnswer(req.route, None)) /\ UNCHANGED loc
             [] o \in {"ok", "empty"} ->
                  /\ loc' = [loc EXCEPT !.profile = Profile(o, created)]
                  /\ pc' = "grud_avatar"
                  /\ UNCHANGED resp
    /\ UNCHANGED <<allowed_users_file, session, handler, req>>
    /\ UNCHANGED chatvars

\* lines 313-346: GET /v1/users/avatar, the account age, the record; any
\* exception raised on the way is caught at line 344 and None is returned
grud_avatar ==
    /\ handler = "get_roblox_user_data" /\ pc = "grud_avatar"
    /\ \E o \in Outcomes, now \in Nows :
        /\ calls' = Append(calls, Call("avatar", o))
        /\ CASE o = "hang" ->
                  Hang /\ UNCHANGED loc
             [] o = "raise" \/ JsonRaises(o) ->
                  Return(RouteAnswer(req.route, None)) /\ UNCHANGED loc
             [] o \in {"ok", "empty", "status_json"} ->
                  LET avatar_url == IF o = "ok" THEN PyStr("avatar.png") ELSE PyStr("")
                      created_date == parse_roblox_date(loc.profile.created)
                      account_age == IF Truthy(created_date)
                                     THEN AgeDays(now, created_date)
                                     ELSE PyStr("-")
                      l == [loc EXCEPT !.avatar_url = avatar_url,
                                       !.created_date = created_date,
                                       !.now = PyInt(now),
                                       !.account_age = account_age]
                  IN /\ loc' = l
                     /\ IF account_age = Raised
                        THEN Return(RouteAnswer(req.route, None))
                        ELSE Return(RouteAnswer(req.route, UserData(l)))
    /\ UNCHANGED <<allowed_users_file, session, handler, req>>
    /\ UNCHANGED chatvars

(***************************************************************************)
(* /roblox                                                                 *)
(***************************************************************************)
\* an exception no handler catches: Flask answers 500
Unhandled == [kind |-> "exception", status |-> 500]

RobloxLocals ==
    [user |-> None, user_id |-> None, created_at |-> None, created_date |-> None,
     now |-> None, account_age_days |-> None, friends_count |-> None,
     avatar_url |-> None, avatar_bust_url |-> None]

\* lines 264-277: the record roblox_lookup answers with
RobloxData(l) ==
    [t |-> "dict",
     name |-> l.user,
     accountAge |-> l.account_age_days,
     friends |-> l.friends_count,
     followers |-> PyStr("N/A"),
     following |-> PyStr("N/A"),
     voiceChat |-> PyStr("Not Eligible"),
     safeChat |-> PyStr("Disabled"),
     language |-> PyStr("en-us"),
     avatarUrl |-> l.avatar_url,
     avatarBustUrl |-> l.avatar_bust_url]

\* lines 209-213 and 279
roblox_begin ==
    /\ CanStart
    /\ \E method \in {"GET", "POST"}, username \in Usernames, token \in BearerTokens :
        /\ handler' = "roblox_lookup"
        /\ req' = [route |-> "/roblox", method |-> method, username |-> username,
                   token |-> token]
        /\ loc' = RobloxLocals
        /\ calls' = <<>>
        /\ IF method = "GET"
           THEN Return(Page(200, "roblox.html", None))
           ELSE IF ~Truthy(username)
                THEN Return(Json(400, ErrorBody("Username is required")))
                ELSE pc' = "rl_resolve" /\ resp' = NoResponse
    /\ UNCHANGED <<allowed_users_file, session>>
    /\ UNCHANGED chatvars

\* the resolution with the body parsed before the status is looked at
roblox_resolve_json_first ==
    /\ handler = "roblox_lookup" /\ pc = "rl_resolve"
    /\ \E o \in Outcomes :
        /\ calls' = Append(calls, Call("resolve", o))
        /\ CASE o = "hang" ->
                  Hang /\ UNCHANGED loc
             [] o = "raise" \/ JsonRaises(o) ->
                  Return(Unhandled) /\ UNCHANGED loc
             [] o \in {"empty", "status_json"} ->
                  Return(Json(404, ErrorBody("User not found"))) /\ UNCHANGED loc
             [] o = "ok" ->
                  /\ loc' = [loc EXCEPT !.user = PyStr("ExistingUser"),
                                        !.user_id = PyInt(1)]
                  /\ pc' = "rl_profile"
                  /\ UNCHANGED resp
    /\ UNCHANGED <<allowed_users_file, session, handler, req>>
    /\ UNCHANGED chatvars

\* lines 216-226: POST /v1/usernames/users
roblox_resolve ==
    /\ handler = "roblox_lookup" /\ pc = "rl_resolve"
    /\ \E o \in Outcomes :
        /\ calls' = Append(calls, Call("resolve", o))
        /\ CASE o = "hang" ->
                  Hang /\ UNCHANGED loc
             [] o = "raise" ->
                  Return(Unhandled) /\ UNCHANGED loc
             [] ~Status200(o) ->
                  Return(Json(404, ErrorBody("User not found"))) /\ UNCHANGED loc
             [] JsonRaises(o) ->
                  Return(Unhandled) /\ UNCHANGED loc
             [] o = "empty" ->
                  Return(Json(404, ErrorBody("User not found"))) /\ UNCHANGED loc
             [] o = "ok" ->
                  /\ loc' = [loc EXCEPT !.user = PyStr("ExistingUser"),
                                        !.user_id = PyInt(1)]
                  /\ pc' = "rl_profile"
                  /\ UNCHANGED resp
    /\ UNCHANGED <<allowed_users_file, session, handler, req>>
    /\ UNCHANGED chatvars

\* lines 229-238: GET /v1/users/{user_id} and the account age
roblox_profile ==
    /\ handler = "roblox_lookup" /\ pc = "rl_profile"
    /\ \E o \in Outcomes, created \in CreatedValues, now \in Nows :
        /\ calls' = Append(calls, Call("profile", o))
        /\ CASE o = "hang" ->
                  Hang /\ UNCHANGED loc
             [] o = "raise" \/ JsonRaises(o) ->
                  Return(Unhandled) /\ UNCHANGED loc
             [] o \in {"ok", "empty", "status_json"} ->
                  LET created_at == Profile(o, created).created
                      created_date == parse_roblox_date(created_at)
                      account_age_days == IF created_date = None
                                          THEN PyStr("N/A")
                                          ELSE AgeDays(now, created_date)
                  IN /\ loc' = [loc EXCEPT !.created_at = created_at,
                                           !.created_date = created_date,
                                           !.now = PyInt(now),
                                           !.account_age_days = account_age_days]
                     /\ IF account_age_days = Raised
                        THEN Return(Unhandled)
                        ELSE pc' = "rl_friends" /\ UNCHANGED resp
    /\ UNCHANGED <<allowed_users_file, session, handler, req>>
    /\ UNCHANGED chatvars

\* lines 241-244: GET /v1/users/{user_id}/friends/count
roblox_friends ==
    /\ handler = "roblox_lookup" /\ pc = "rl_friends"
    /\ \E o \in Outcomes :
        /\ calls' = Append(calls, Call("friends", o))
        /\ CASE o = "hang" ->
                  Hang /\ UNCHANGED loc
             [] o = "raise" \/ JsonRaises(o) ->
                  Return(Unhandled) /\ UNCHANGED loc
             [] o \in {"ok", "empty", "status_json"} ->
                  /\ loc' = [loc EXCEPT !.friends_count =
                                IF o = "ok" THEN PyInt(3) ELSE PyStr("N/A")]
                  /\ pc' = "rl_headshot"
                  /\ UNCHANGED resp
    /\ UNCHANGED <<allowed_users_file, session, handler, req>>
    /\ UNCHANGED chatvars

\* lines 250-252 and 258-259: GET /v1/users/avatar-headshot
roblox_headshot ==
    /\ handler = "roblox_lookup" /\ pc = "rl_headshot"
    /\ \E o \in Outcomes :
        /\ calls' = Append(calls, Call("headshot", o))
        /\ CASE o = "hang" ->
                  Hang /\ UNCHANGED loc
             [] o = "raise" \/ JsonRaises(o) ->
                  Return(Unhandled) /\ UNCHANGED loc
             [] o \in {"ok", "empty", "status_json"} ->
                  /\ loc' = [loc EXCEPT !.avatar_url =
                                IF o = "ok" THEN PyStr("headshot.png") ELSE None]
                  /\ pc' = "rl_bust"
                  /\ UNCHANGED resp
    /\ UNCHANGED <<allowed_users_file, session, handler, req>>
    /\ UNCHANGED chatvars

\* lines 254-256 and 261-277: GET /v1/users/avatar-bust, then the record
roblox_bust ==
    /\ handler = "roblox_lookup" /\ pc = "rl_bust"
    /\ \E o \in Outcomes :
        /\ calls' = Append(calls, Call("bust", o))
        /\ CASE o = "hang" ->
                  Hang /\ UNCHANGED loc
             [] o = "raise" \/ JsonRaises(o) ->
                  Return(Unhandled) /\ UNCHANGED loc
             [] o \in {"ok", "empty", "status_json"} ->
                  LET l == [loc EXCEPT !.avatar_bust_url =
                                IF o = "ok" THEN PyStr("bust.png") ELSE None]
                  IN /\ loc' = l
                     /\ Return(Json(200, RobloxData(l)))
    /\ UNCHANGED <<allowed_users_file, session, handler, req>>
    /\ UNCHANGED chatvars

(***************************************************************************)
(* /api/chatlogs                                                           *)
(***************************************************************************)
ChatUsernames == {"Bob", "amy"}
Lower(name) == IF name = "Bob" THEN "bob" ELSE name

\* lines 384-390: the record appended for the k-th request of client w
ChatRecord(w, k, username) == [username |-> username, message |-> <<w, k>>]

webvars == <<allowed_users_file, session, handler, pc, req, loc, calls, resp>>

\* lines 377-390: the body is validated, the file is loaded, the record appended
add_chatlog_load(w) ==
    /\ writers[w].pc = "idle"
    /\ writers[w].posts < MaxPosts
    /\ \E complete \in BOOLEAN, username \in ChatUsernames :
        LET k == writers[w].posts + 1 IN
        IF ~complete
        THEN writers' = [writers EXCEPT ![w].posts = k, ![w].status = 400]
        ELSE IF load_chatlogs = Raised
             THEN writers' = [writers EXCEPT ![w].posts = k, ![w].status = 500]
             ELSE writers' = [writers EXCEPT
                      ![w].posts = k,
                      ![w].status = 0,
                      ![w].pc = "loaded",
                      ![w].logs = Append(load_chatlogs.v, ChatRecord(w, k, username))]
    /\ UNCHANGED <<chatlog_file, chatlogs_resp, webvars>>

\* line 54: open(CHATLOG_FILE, "w") empties the file
save_chatlogs_open(w) ==
    /\ writers[w].pc = "loaded"
    /\ chatlog_file' = FileTruncated
    /\ writers' = [writers EXCEPT ![w].pc = "opened"]
    /\ UNCHANGED <<chatlogs_resp, webvars>>

\* line 55 and line 393: json.dump(logs, f) from offset 0, then the success answer
save_chatlogs_dump(w) ==
    /\ writers[w].pc = "opened"
    /\ chatlog_file' =
          IF chatlog_file.state = "corrupt"
                \/ (chatlog_file.state = "complete"
                      /\ Len(chatlog_file.logs) > Len(writers[w].logs))
          THEN FileCorrupt
          ELSE FileComplete(writers[w].logs)
    /\ writers' = [writers EXCEPT
          ![w].pc = "idle",
          ![w].status = 200,
          ![w].acked = @ \cup {writers[w].logs[Len(writers[w].logs)]}]
    /\ UNCHANGED <<chatlogs_resp, webvars>>

\* lines 400-406: the logs, filtered by the username parameter when given
FilterLogs(logs, username) ==
    IF username = ""
    THEN logs
    ELSE SelectSeq(logs, LAMBDA log : Lower(log.username) = Lower(username))

\* lines 395-406
get_chatlogs ==
    /\ \E username \in {"", "bob"} :
        chatlogs_resp' =
            IF load_chatlogs = Raised
            THEN Unhandled
            ELSE Json(200, FilterLogs(load_chatlogs.v, username))
    /\ UNCHANGED <<chatlog_file, writers, webvars>>

ChatNext ==
    \/ \E w \in Writers : add_chatlog_load(w)
    \/ \E w \in Writers : save_chatlogs_open(w)
    \/ \E w \in Writers : save_chatlogs_dump(w)
    \/ get_chatlogs

ChatSpec == Init /\ [][ChatNext]_vars

Range(f) == {f[i] : i \in DOMAIN f}
Acked == UNION {writers[w].acked : w \in Writers}
NoPostInProgress == \A w \in Writers : writers[w].pc = "idle"

\* C17: once no add_chatlog request is in progress, the store holds one
\* record per request that answered success, and they are what get_chatlogs
\* returns: the file can be loaded, every acknowledged record is in it, and
\* it holds nothing else.
C17_NoChatlogLost ==
    NoPostInProgress =>
        /\ load_chatlogs # Raised
        /\ Acked = Range(load_chatlogs.v)
        /\ Len(load_chatlogs.v) = Cardinality(Acked)

(***************************************************************************)
(* Specifications.  A lookup neither reads nor writes the session or       *)
(* allowed_users.json, and /callback neither reads nor writes what a       *)
(* lookup holds, so the two groups of handlers are also given alone.       *)
(***************************************************************************)
AuthNext ==
    \/ EditAllowList
    \/ callback_begin
    \/ callback_exchange
    \/ callback_identity
    \/ callback_authorize
    \/ callback_notify
    \/ access_denied
    \/ get_user
    \/ logout

LookupNext ==
    \/ lookup_begin
    \/ grud_resolve
    \/ grud_profile
    \/ grud_avatar
    \/ roblox_begin
    \/ roblox_resolve
    \/ roblox_profile
    \/ roblox_friends
    \/ roblox_headshot
    \/ roblox_bust

Next == AuthNext \/ LookupNext

Spec == Init /\ [][Next]_vars
AuthSpec == Init /\ [][AuthNext]_vars
LookupSpec == Init /\ [][LookupNext]_vars

(***************************************************************************)
(* Properties of /callback                                                 *)
(***************************************************************************)
CallNames(cs) == [i \in 1..Len(cs) |-> cs[i].call]
IsPrefix(a, b) == Len(a) <= Len(b) /\ \A i \in 1..Len(a) : a[i] = b[i]
Called(name) == \E i \in 1..Len(calls) : calls[i].call = name

AuthenticationFailures ==
    {Text(400, "Missing code"), Text(400, "Token exchange failed"),
     Text(400, "Failed to get access token"), Text(400, "Failed to fetch user info")}
Denied == Redirect(AccessDeniedUrl, None)
IsAllowed(r) == r.kind = "redirect" /\ r.to = FrontendUrl

\* the states of one authentication attempt, read off the handler's position
CallbackStage(p) ==
    CASE p = "cb_exchange" -> "CodeReceived"
      [] p = "cb_identity" -> "TokenObtained"
      [] p \in {"cb_authorize", "cb_notify"} -> "IdentityResolved"
      [] p = "done" -> "Terminal"
      [] p = "hung" -> "Waiting"
      [] OTHER -> "Start"

CallbackTransitions ==
    ({"idle", "done", "hung"} \X {"cb_exchange", "done"}) \cup
    {<<"cb_exchange", "cb_identity">>, <<"cb_exchange", "done">>, <<"cb_exchange", "hung">>,
     <<"cb_identity", "cb_authorize">>, <<"cb_identity", "done">>, <<"cb_identity", "hung">>,
     <<"cb_authorize", "cb_notify">>, <<"cb_authorize", "done">>,
     <<"cb_notify", "done">>, <<"cb_notify", "hung">>}

CallbackWellFormed ==
    /\ IsPrefix(CallNames(calls), <<"token", "identity", "webhook">>)
    /\ pc = "cb_exchange" => Len(calls) = 0
    /\ pc = "cb_identity" => Len(calls) = 1
    /\ pc \in {"cb_authorize", "cb_notify"} => Len(calls) = 2
    /\ (pc = "done") <=> (resp # NoResponse)
    /\ resp # NoResponse =>
          \/ resp \in AuthenticationFailures \cup {Text(500, "Server error"), Denied}
          \/ IsAllowed(resp)
    /\ \A i \in 1..Len(calls) :
          (i < Len(calls) /\ calls[i].call \in {"token", "identity"})
              => calls[i].outcome \in {"ok", "empty"}
    /\ (Len(calls) >= 1 /\ calls[1].outcome # "ok") => (Len(calls) = 1 /\ pc \in {"done", "hung"})
    /\ (Len(calls) >= 2 /\ calls[2].outcome \notin {"ok", "empty"})
          => (Len(calls) = 2 /\ pc \in {"done", "hung"})
    /\ (pc = "done" /\ resp # NoResponse /\ IsAllowed(resp)) =>
          /\ Truthy(req.code)
          /\ CallNames(calls) = <<"token", "identity", "webhook">>
          /\ calls[1].outcome = "ok"
          /\ calls[2].outcome \in {"ok", "empty"}
          /\ Truthy(loc.access_token)
          /\ resp.token = loc.access_token
          /\ loc.user_id \in loc.allowed_users

\* C3: one /callback attempt passes Start, CodeReceived, TokenObtained,
\* IdentityResolved in that order, performs the token exchange, the identity
\* fetch and the webhook at most once each and in that order, answers exactly
\* once at its end, and answers with the redirect carrying the access token
\* only when the code was present, both upstream steps succeeded and the
\* identity's id is in the allow-list as read; every failure ends the attempt
\* at that step with another answer.
C3_CallbackStateMachine ==
    [][handler' = "callback" =>
          /\ pc' # pc => <<pc, pc'>> \in CallbackTransitions
          /\ CallbackStage(pc') # "Start"
          /\ CallbackWellFormed'
          /\ (handler = "callback" /\ ~CanStart) => IsPrefix(calls, calls')]_vars

C3_Witness ==
    /\ handler = "callback" /\ pc = "done"
    /\ resp = Redirect(FrontendUrl, PyStr("at1"))
    /\ CallNames(calls) = <<"token", "identity", "webhook">>
    /\ loc.user_id \in loc.allowed_users

\* C4: the authorize step of /callback decides by the allow-list as it is on
\* disk at that step: an id absent from it is denied, an id present in it goes
\* on to the Allowed path, whatever the list held at any earlier moment.
C4_AuthorizeReadsCurrentList ==
    [][(handler = "callback" /\ pc = "cb_authorize" /\ pc' # pc
            /\ allowed_users_file.readable) =>
          /\ loc'.allowed_users = allowed_users_file.allowedUsers
          /\ IF loc.user_id \in allowed_users_file.allowedUsers
             THEN pc' = "cb_notify" /\ resp' = NoResponse
             ELSE pc' = "done" /\ resp' = Denied]_vars

\* user 1 is in the deployed list and is denied by the list read at the check
C4_Witness ==
    /\ handler = "callback" /\ pc = "done" /\ resp = Denied
    /\ loc.user_id = 1
    /\ 1 \in DeployedAllowFile.allowedUsers
    /\ loc.allowed_users = {2}

\* C5: a /callback whose token exchange or identity fetch fails (the request
\* raises, a non-success status, a body that cannot be used, no access_token)
\* ends at that step with an authentication failure and leaves the session's
\* user entry as it was; the session is written only by the step that
\* completes a successful identity fetch.
C5_FailedAuthStoresNoIdentity ==
    [][handler' = "callback" =>
          /\ session' # session =>
                /\ pc = "cb_identity" /\ pc' = "cb_authorize"
                /\ calls'[Len(calls')] \in {Call("identity", "ok"), Call("identity", "empty")}
          /\ (pc \in {"cb_exchange", "cb_identity"} /\ pc' # pc
                /\ calls'[Len(calls')].outcome \notin {"ok", "hang"}
                /\ calls'[Len(calls')] # Call("identity", "empty")) =>
                /\ pc' = "done"
                /\ resp' \in AuthenticationFailures
                /\ session' = session
          /\ resp' \in AuthenticationFailures => session' = session]_vars

\* a failed token exchange of a client that was logged in before
C5_Witness ==
    /\ handler = "callback" /\ pc = "done"
    /\ resp = Text(400, "Token exchange failed")
    /\ session.user = User(1)

IdentityResolved ==
    /\ Len(calls) >= 2
    /\ calls[1] = Call("token", "ok")
    /\ calls[2] \in {Call("identity", "ok"), Call("identity", "empty")}

\* C6: /callback answers Denied (the redirect to /callback/access-denied,
\* which answers 403) exactly when the identity was resolved, the allow-list
\* was read and the id is not in it; Denied is none of the authentication
\* failures, no failed code receipt, token exchange or identity fetch gives
\* Denied, and a resolved identity never gives an authentication failure.
C6_DeniedDistinctFromAuthFailure ==
    /\ Denied \notin AuthenticationFailures
    /\ (handler = "access_denied" /\ pc = "done") => resp.status = 403
    /\ (handler = "callback" /\ pc = "done") =>
          /\ resp = Denied =>
                (Truthy(req.code) /\ IdentityResolved /\ Len(calls) = 2
                   /\ loc.user_id \notin loc.allowed_users)
          /\ IdentityResolved =>
                /\ resp \notin AuthenticationFailures
                /\ (resp # Text(500, "Server error") /\ loc.user_id \notin loc.allowed_users)
                      => resp = Denied
          /\ ~IdentityResolved => resp \in AuthenticationFailures

C6_Witness ==
    /\ handler = "callback" /\ pc = "done" /\ resp = Denied
    /\ calls = <<Call("token", "ok"), Call("identity", "ok")>>
    /\ loc.user_id = 2
    /\ loc.allowed_users = {1}

\* C9: the login notification is sent only on the Allowed path, and whatever
\* the webhook delivery does (succeeds, answers an error status, raises, never
\* answers) the callback has answered with the redirect carrying the token.
C9_NotificationNeverBlocks ==
    (handler = "callback" /\ Called("webhook")) =>
        /\ loc.user_id \in loc.allowed_users
        /\ pc = "done"
        /\ resp = Redirect(FrontendUrl, loc.access_token)

(***************************************************************************)
(* Properties of the lookups                                               *)
(***************************************************************************)
FieldKeys ==
    {"username", "display_name", "id", "created", "accountAge", "description",
     "avatarBustUrl", "friends", "followers", "following", "voiceChat",
     "safeChat", "language"}

Unusable == {"raise", "badjson", "status_json", "status_text"}

\* the dict a response carries to the caller (JSON body or template context)
Carried(r) ==
    CASE r.kind = "json" -> r.body
      [] r.kind = "page" -> r.context
      [] OTHER -> None

CarriesProfile(r) == "accountAge" \in DOMAIN Carried(r)

\* C1: once the id of the username is resolved, get_roblox_user_data returns
\* a record with every field key, never NotFound, whichever of the profile
\* fetch and the avatar fetch fails and however it fails.
C1_CompleteRecordOnceResolved ==
    (handler = "get_roblox_user_data" /\ pc = "done" /\ Len(calls) >= 1
        /\ calls[1] = Call("resolve", "ok")) =>
            /\ resp # RouteAnswer(req.route, None)
            /\ FieldKeys \subseteq DOMAIN Carried(resp)

\* C2: a lookup route answers with profile data only for a caller who has a
\* session identity or presents a token; a caller with neither never receives
\* profile data.
C2_GateBeforeProfileData ==
    (handler \in {"get_roblox_user_data", "roblox_lookup"} /\ pc = "done"
        /\ CarriesProfile(resp)) =>
            (Truthy(session.user) \/ Truthy(req.token))

NotFound ==
    IF handler = "roblox_lookup"
    THEN Json(404, ErrorBody("User not found"))
    ELSE RouteAnswer(req.route, None)

\* C7: when the username-to-id call answers non-200 or with an empty result
\* set, both lookups answer NotFound and the resolution is the only upstream
\* call of the request: no profile, friends-count or avatar request follows.
C7_UnresolvedIssuesNoFurtherCall ==
    (handler \in {"get_roblox_user_data", "roblox_lookup"} /\ Len(calls) >= 1
        /\ calls[1].outcome \in {"status_json", "status_text", "empty"}) =>
            /\ calls = <<Call("resolve", calls[1].outcome)>>
            /\ pc = "done"
            /\ resp = NotFound

C7_Witness ==
    /\ handler = "roblox_lookup" /\ pc = "done"
    /\ calls = <<Call("resolve", "status_text")>>
    /\ resp = Json(404, ErrorBody("User not found"))

\* C8: in roblox_lookup, when the friends-count call fails the lookup goes
\* on with friends "N/A", and the record it returns has friends "N/A" and the
\* name and accountAge computed before that call.
C8_FriendsFailureTolerated ==
    (handler = "roblox_lookup" /\ Len(calls) >= 3 /\ calls[3].outcome \in Unusable) =>
        /\ loc.friends_count = PyStr("N/A")
        /\ Len(calls) = 3 => pc = "rl_headshot"
        /\ (pc = "done" /\ calls[Len(calls)].outcome \notin Unusable) =>
              /\ CarriesProfile(resp)
              /\ resp.body.friends = PyStr("N/A")
              /\ resp.body.name = loc.user
              /\ resp.body.accountAge = loc.account_age_days

\* the age a lookup computed, with the sentinel of that lookup
AgeAsClaimed(age, created_date, now, sentinel) ==
    /\ age # Raised
    /\ created_date = None => age = PyStr(sentinel)
    /\ (created_date # None /\ created_date.tz # None
          /\ created_date.wall - created_date.tz.v < now.v) =>
             (age.t = "int" /\ age.v >= 0)

\* C10: in both lookups accountAge is a non-negative integer when the
\* creation timestamp parses to an instant before now, the sentinel ("-" in
\* get_roblox_user_data, "N/A" in roblox_lookup) when it is absent or
\* unparseable, and no creation-timestamp value makes the age computation
\* raise or abort the lookup.
C10_AgeNeverAborts ==
    /\ (handler = "get_roblox_user_data" /\ pc = "done" /\ Len(calls) = 3
          /\ calls[3].outcome \notin Unusable) =>
             /\ AgeAsClaimed(loc.account_age, loc.created_date, loc.now, "-")
             /\ CarriesProfile(resp)
             /\ Carried(resp).accountAge = loc.account_age
    /\ (handler = "roblox_lookup" /\ Len(calls) = 2 /\ calls[2].outcome \notin Unusable
          /\ pc # "hung") =>
             /\ AgeAsClaimed(loc.account_age_days, loc.created_date, loc.now, "N/A")
             /\ pc = "rl_friends"

(***************************************************************************)
(* Timeouts and dispatch order of the upstream calls                       *)
(***************************************************************************)
\* C11: every upstream call is bounded in time, so no lookup and no
\* /callback is ever left waiting on an upstream that never answers.
C11_NoHandlerWaitsForever == pc # "hung"

\* the fetches a lookup makes once the platform id is known
Fetches ==
    IF handler = "roblox_lookup"
    THEN {"profile", "friends", "headshot", "bust"}
    ELSE {"profile", "avatar"}

\* C14: once the id is known the fetches of a lookup are all dispatched
\* before the outcome of any of them is waited for: whenever the outcome of
\* one fetch has come back, every other fetch has been issued.
C14_FanOutBeforeJoin ==
    (handler \in {"get_roblox_user_data", "roblox_lookup"}
        /\ \E i \in 1..Len(calls) : calls[i].call \in Fetches /\ calls[i].outcome = "ok") =>
            \A f \in Fetches : Called(f)

(***************************************************************************)
(* Properties of the session                                               *)
(***************************************************************************)
\* C15: a /callback that ends Denied or in the allow-list read error leaves
\* no identity in the session, so /api/user cannot report logged_in for it.
C15_SessionOnlyAfterAllowed ==
    (handler = "callback" /\ pc = "done"
        /\ resp \in {Denied, Text(500, "Server error")}) =>
            ~Truthy(session.user)

\* C16: /logout empties the session, /api/user reports logged_in exactly
\* when the session holds a user, and a session without a user gets one only
\* by the /callback step that completes a successful identity fetch.
C16_LogoutClearsSession ==
    [][/\ handler' = "logout" => ~Truthy(session'.user)
       /\ handler' = "get_user" => resp'.body.logged_in = Truthy(session'.user)
       /\ (~Truthy(session.user) /\ Truthy(session'.user)) =>
             /\ handler' = "callback" /\ pc = "cb_identity"
             /\ calls'[Len(calls')] \in {Call("identity", "ok"), Call("identity", "empty")}]_vars

C16_Witness ==
    /\ handler = "logout" /\ pc = "done"
    /\ resp = Redirect("/", None)
    /\ session = EmptySession

(***************************************************************************)
(* parse_roblox_date alone: the argument is drawn from the values a        *)
(* profile can carry and from instants written in the two encodings.       *)
(***************************************************************************)
Encoding(name, frac, zone) == [name |-> name, frac |-> frac, zone |-> zone]

\* fixed-width fractional seconds with Z, and extended ISO-8601 with Z or
\* an offset
Encodings ==
    {Encoding("fixed", f, "Z") : f \in {3, 6}} \cup
    {Encoding("iso", f, z) : f \in {0, 3, 6}, z \in {"Z", "+01:00"}}

\* the string that spells instant t in encoding e
Format(t, e) == Ts(t + ZoneOffset(e.zone), e.frac, e.zone)

DateRequests ==
    {[route |-> "parse_roblox_date", date_str |-> c, instant |-> None,
      encoding |-> Encoding("raw", 0, "")] : c \in CreatedValues} \cup
    {[route |-> "parse_roblox_date", date_str |-> Format(t, e), instant |-> PyInt(t),
      encoding |-> e] : t \in Instants, e \in Encodings}

DateInit ==
    /\ allowed_users_file = DeployedAllowFile
    /\ session = EmptySession
    /\ handler = "parse_roblox_date"
    /\ pc = "call"
    /\ req \in DateRequests
    /\ loc = NoLocals
    /\ calls = <<>>
    /\ resp = NoResponse
    /\ ChatInit

\* lines 29-45: one call of parse_roblox_date
normalize ==
    /\ handler = "parse_roblox_date" /\ pc = "call"
    /\ Return([kind |-> "value", value |-> parse_roblox_date(req.date_str)])
    /\ UNCHANGED <<allowed_users_file, session, handler, req, loc, calls>>
    /\ UNCHANGED chatvars

DateSpec == DateInit /\ [][normalize]_vars

\* C12: parse_roblox_date never raises, and what it returns is None or an
\* aware instant whose zone is UTC (never naive, never a non-zero offset).
C12_ResultIsNoneOrUtc ==
    (handler = "parse_roblox_date" /\ pc = "done") =>
        /\ resp.value # Raised
        /\ \/ resp.value = None
           \/ (resp.value.t = "datetime" /\ resp.value.tz = PyInt(0))

====
